---- MODULE Spec2Model ----
(***************************************************************************)
(* Model of lib/util/usedPropTypes.js: the engine that marks the props a   *)
(* React component reads.  A behaviour is one traversal of one syntax      *)
(* tree: Init picks the tree and the feature gate, each action is one      *)
(* observation point (listener) of the engine applied to the next node of  *)
(* the traversal, and ProgramExit is the end-of-traversal callback.        *)
(***************************************************************************)
EXTENDS Integers, Sequences, FiniteSets, TLC

\* Longest member chain after the props root (this.props.a.b has 2 steps).
MaxChain == 2
\* Most fields in a destructuring pattern.
MaxFields == 2

\* JavaScript's undefined, as the value of an absent string-valued field.
UNDEF == "undefined"
\* A node reference that is null/undefined.
NoNode == 0

(***************************************************************************)
(* Syntax trees.  A tree is a sequence of nodes in traversal (pre-)order;  *)
(* a node is referred to by its index.  Every node carries the ESTree      *)
(* fields the engine reads; an absent child is NoNode, an absent string    *)
(* is UNDEF, an absent list is <<>>.  Literal.value is `value' (with       *)
(* `typeofValue'); Property.value, a node, is `valueNode'.                 *)
(***************************************************************************)
N0 == [type |-> UNDEF, parent |-> NoNode, name |-> UNDEF, value |-> UNDEF, typeofValue |-> UNDEF, computed |-> FALSE, kind |-> UNDEF, object |-> NoNode, property |-> NoNode, key |-> NoNode, valueNode |-> NoNode, id |-> NoNode, init |-> NoNode, params |-> <<>>, properties |-> <<>>, left |-> NoNode, callee |-> NoNode, arguments |-> <<>>, argument |-> NoNode, start |-> 0, component |-> "none"]

Leaf(type, parent) == [N0 EXCEPT !.type = type, !.parent = parent]
Identifier(name, parent) == [N0 EXCEPT !.type = "Identifier", !.parent = parent, !.name = name]
StringLiteral(v, parent) == [N0 EXCEPT !.type = "Literal", !.parent = parent, !.value = v, !.typeofValue = "string"]
NumberLiteral(v, parent) == [N0 EXCEPT !.type = "Literal", !.parent = parent, !.value = v, !.typeofValue = "number"]

\* ---- member chains: this.props.a.b, props.a[x], nextProps["y"], this ----
\* root "this" is this.props, root "self" is a bare `this', any other root is
\* an identifier of that name.  A step is [k, n]: k = "id" (.n), "cid" ([n]),
\* "str" (["n"]) or "num" ([n], a number).
ChainMembers(root, steps) == IF root = "this" THEN Len(steps) + 1 ELSE Len(steps)
ChainAtoms(root) == IF root = "this" THEN 2 ELSE 1
ChainSize(root, steps) == ChainMembers(root, steps) + ChainAtoms(root) + Len(steps)

ChainKey(step, parent) ==
  CASE step.k = "str" -> StringLiteral(step.n, parent)
    [] step.k = "num" -> NumberLiteral(step.n, parent)
    [] OTHER -> Identifier(step.n, parent)

ChainNode(base, parent, root, steps, i) ==
  LET L == Len(steps)
      m == ChainMembers(root, steps)
      a == ChainAtoms(root)
  IN IF i <= m
       THEN LET j == L + 1 - i
            IN [N0 EXCEPT !.type = "MemberExpression",
                          !.parent = IF i = 1 THEN parent ELSE base + i - 1,
                          !.object = IF i = m THEN base + m + 1 ELSE base + i + 1,
                          !.property = IF j = 0 THEN base + m + 2 ELSE base + m + a + j,
                          !.computed = IF j = 0 THEN FALSE ELSE steps[j].k # "id"]
     ELSE IF i = m + 1
       THEN LET p == IF m = 0 THEN parent ELSE base + m
            IN IF root \in {"this", "self"} THEN Leaf("ThisExpression", p) ELSE Identifier(root, p)
     ELSE IF root = "this" /\ i = m + 2
       THEN Identifier("props", base + m)
     ELSE LET j == i - m - a IN ChainKey(steps[j], base + (L + 1 - j))

Chain(base, parent, root, steps) == [i \in 1..ChainSize(root, steps) |-> ChainNode(base, parent, root, steps, i)]

\* ---- object patterns: {a, b}, {'y': v}, {[x]: v}, {a, ...rest} ----
\* A field is [k, n]: k = "plain" ({n}), "str" ({'n': v}), "comp" ({[n]: v})
\* or "rest" ({...n}); a rest field is the last one.
PatternSize(fields) == 1 + 3 * Len(fields) - (IF Len(fields) > 0 /\ fields[Len(fields)].k = "rest" THEN 1 ELSE 0)
FieldId(base, q) == base + 2 + 3 * (q - 1)

PatternNode(base, parent, fields, i) ==
  IF i = 1
    THEN [N0 EXCEPT !.type = "ObjectPattern", !.parent = parent, !.properties = [q \in 1..Len(fields) |-> FieldId(base, q)]]
    ELSE LET q == ((i - 2) \div 3) + 1
             r == (i - 2) % 3
             f == fields[q]
         IN IF r = 0
              THEN IF f.k = "rest"
                     THEN [N0 EXCEPT !.type = "RestElement", !.parent = base + 1, !.argument = base + i + 1]
                     ELSE [N0 EXCEPT !.type = "Property", !.parent = base + 1, !.kind = "init", !.key = base + i + 1, !.valueNode = base + i + 2, !.computed = (f.k = "comp")]
            ELSE IF r = 1
              THEN IF f.k = "str" THEN StringLiteral(f.n, base + i - 1) ELSE Identifier(f.n, base + i - 1)
            ELSE Identifier(IF f.k = "plain" THEN f.n ELSE "v", base + i - 2)

Pattern(base, parent, fields) == [i \in 1..PatternSize(fields) |-> PatternNode(base, parent, fields, i)]

\* ---- statements of a function body ----
\* A statement descriptor; f selects the shape, the other fields its parts.
SD0 == [f |-> "none", root |-> "props", steps |-> <<>>, tail |-> "stmt", fields |-> <<>>, key |-> "props", wrap |-> "none", callee |-> "setState", argpos |-> 1, fparams |-> "none"]

\* <chain>;   bar[<chain>];   <chain> = v;   const {fields} = <chain>;
ChainStmt(base, parent, sd) ==
  CASE sd.tail = "stmt" ->
         <<Leaf("ExpressionStatement", parent)>> \o Chain(base + 1, base + 1, sd.root, sd.steps)
    [] sd.tail = "index" ->
         <<Leaf("ExpressionStatement", parent),
           [N0 EXCEPT !.type = "MemberExpression", !.parent = base + 1, !.object = base + 3, !.property = base + 4, !.computed = TRUE],
           Identifier("bar", base + 2)>> \o Chain(base + 3, base + 2, sd.root, sd.steps)
    [] sd.tail = "assign" ->
         <<Leaf("ExpressionStatement", parent),
           [N0 EXCEPT !.type = "AssignmentExpression", !.parent = base + 1, !.left = base + 3]>>
         \o Chain(base + 2, base + 2, sd.root, sd.steps) \o <<Identifier("v", base + 2)>>
    [] sd.tail = "decl" ->
         <<[N0 EXCEPT !.type = "VariableDeclaration", !.parent = parent, !.kind = "const"],
           [N0 EXCEPT !.type = "VariableDeclarator", !.parent = base + 1, !.id = base + 3, !.init = base + 3 + PatternSize(sd.fields)]>>
         \o Pattern(base + 2, base + 2, sd.fields)
         \o Chain(base + 2 + PatternSize(sd.fields), base + 2, sd.root, sd.steps)

\* const {key: {fields}} = <root>;   const {key: {fields} = {}} = <root>;
NestedStmt(base, parent, sd) ==
  LET ps == PatternSize(sd.fields)
      next == IF sd.wrap = "none" THEN base + 5 + ps ELSE base + 7 + ps
      inner == IF sd.wrap = "none"
                 THEN Pattern(base + 5, base + 4, sd.fields)
                 ELSE <<[N0 EXCEPT !.type = "AssignmentPattern", !.parent = base + 4, !.left = base + 7]>>
                      \o Pattern(base + 6, base + 6, sd.fields) \o <<Leaf("ObjectExpression", base + 6)>>
  IN <<[N0 EXCEPT !.type = "VariableDeclaration", !.parent = parent, !.kind = "const"],
       [N0 EXCEPT !.type = "VariableDeclarator", !.parent = base + 1, !.id = base + 3, !.init = next + 1],
       [N0 EXCEPT !.type = "ObjectPattern", !.parent = base + 2, !.properties = <<base + 4>>],
       [N0 EXCEPT !.type = "Property", !.parent = base + 3, !.kind = "init", !.key = base + 5, !.valueNode = base + 6],
       Identifier(sd.key, base + 4)>>
     \o inner \o Chain(next, base + 2, sd.root, <<>>)

\* this.<callee>(<fn>);   this.<callee>(update, <fn>);   <fn> is an arrow
\* function (<fparams>) => <root><steps>.
UpdaterParams(fid, sd) ==
  CASE sd.fparams = "none" -> <<>>
    [] sd.fparams = "one" -> <<Identifier("state", fid)>>
    [] sd.fparams = "props" -> <<Identifier("state", fid), Identifier("props", fid)>>
    [] sd.fparams = "p" -> <<Identifier("state", fid), Identifier("p", fid)>>
    [] sd.fparams = "pat" -> <<Identifier("state", fid)>> \o Pattern(fid + 1, fid, sd.fields)

UpdaterParamIds(fid, sd) ==
  CASE sd.fparams = "none" -> <<>>
    [] sd.fparams = "one" -> <<fid + 1>>
    [] OTHER -> <<fid + 1, fid + 2>>

SetStateStmt(base, parent, sd) ==
  LET fid == IF sd.argpos = 1 THEN base + 6 ELSE base + 7
      ps == UpdaterParams(fid, sd)
  IN <<Leaf("ExpressionStatement", parent),
       [N0 EXCEPT !.type = "CallExpression", !.parent = base + 1, !.callee = base + 3, !.arguments = IF sd.argpos = 1 THEN <<base + 6>> ELSE <<base + 6, base + 7>>],
       [N0 EXCEPT !.type = "MemberExpression", !.parent = base + 2, !.object = base + 4, !.property = base + 5],
       Leaf("ThisExpression", base + 3),
       Identifier(sd.callee, base + 3)>>
     \o (IF sd.argpos = 1 THEN <<>> ELSE <<Identifier("update", base + 2)>>)
     \o <<[N0 EXCEPT !.type = "ArrowFunctionExpression", !.parent = base + 2, !.params = UpdaterParamIds(fid, sd)]>>
     \o ps \o Chain(fid + Len(ps), fid, sd.root, sd.steps)

\* <div {...rest}/>;
JsxStmt(base, parent) ==
  <<Leaf("ExpressionStatement", parent), Leaf("JSXElement", base + 1), Leaf("JSXOpeningElement", base + 2),
    [N0 EXCEPT !.type = "JSXSpreadAttribute", !.parent = base + 3, !.argument = base + 5],
    Identifier("rest", base + 4)>>

StmtNodes(base, parent, sd) ==
  CASE sd.f = "chain" -> ChainStmt(base, parent, sd)
    [] sd.f = "nested" -> NestedStmt(base, parent, sd)
    [] sd.f = "setState" -> SetStateStmt(base, parent, sd)
    [] sd.f = "jsx" -> JsxStmt(base, parent)
    [] OTHER -> <<>>

\* ---- the enclosing construct ----
\* c = "class":    class Hello extends Component { <method>(<param>) {...} }
\* c = "object":   const obj = { <method>(<param>) {...} }   (comp "es5": the
\*                 object is the argument of createReactClass)
\* c = "function": const Hello = (<param>) => {...}, or a function expression
\*                 or declaration (fkind is the node type)
\* pk is the parameter: "none", "ident", "pat" ({fields}) or "defpat"
\* ({fields} = {}).
ParamNodes(fn, ctx) ==
  CASE ctx.pk = "none" -> <<>>
    [] ctx.pk = "ident" -> <<Identifier(IF ctx.c = "function" THEN "props" ELSE "nextProps", fn)>>
    [] ctx.pk = "pat" -> Pattern(fn, fn, ctx.pfields)
    [] ctx.pk = "defpat" ->
         <<[N0 EXCEPT !.type = "AssignmentPattern", !.parent = fn, !.left = fn + 2]>>
         \o Pattern(fn + 1, fn + 1, ctx.pfields) \o <<Leaf("ObjectExpression", fn + 1)>>

ParamIds(fn, ctx) == IF ctx.pk = "none" THEN <<>> ELSE <<fn + 1>>

MethodKind(ctx) == IF ctx.c = "class" THEN (IF ctx.method = "constructor" THEN "constructor" ELSE "method") ELSE "init"

Skeleton(ctx) ==
  CASE ctx.c = "class" ->
         <<Leaf("Program", NoNode),
           [N0 EXCEPT !.type = "ClassDeclaration", !.parent = 1, !.component = ctx.comp],
           Leaf("ClassBody", 2),
           [N0 EXCEPT !.type = "MethodDefinition", !.parent = 3, !.key = 5, !.valueNode = 6, !.kind = MethodKind(ctx)],
           Identifier(ctx.method, 4),
           [N0 EXCEPT !.type = "FunctionExpression", !.parent = 4, !.params = ParamIds(6, ctx)]>>
         \o ParamNodes(6, ctx) \o <<Leaf("BlockStatement", 6)>>
    [] ctx.c = "object" ->
         <<Leaf("Program", NoNode),
           [N0 EXCEPT !.type = "VariableDeclaration", !.parent = 1, !.kind = "const"],
           [N0 EXCEPT !.type = "VariableDeclarator", !.parent = 2, !.id = 4, !.init = 5],
           Identifier("obj", 3),
           [N0 EXCEPT !.type = "ObjectExpression", !.parent = 3, !.properties = <<6>>, !.component = ctx.comp],
           [N0 EXCEPT !.type = "Property", !.parent = 5, !.key = 7, !.valueNode = 8, !.kind = MethodKind(ctx)],
           Identifier(ctx.method, 6),
           [N0 EXCEPT !.type = "FunctionExpression", !.parent = 6, !.params = ParamIds(8, ctx)]>>
         \o ParamNodes(8, ctx) \o <<Leaf("BlockStatement", 8)>>
    [] ctx.c = "function" /\ ctx.fkind = "FunctionDeclaration" ->
         <<Leaf("Program", NoNode),
           [N0 EXCEPT !.type = "FunctionDeclaration", !.parent = 1, !.params = ParamIds(2, ctx), !.component = ctx.comp]>>
         \o ParamNodes(2, ctx) \o <<Leaf("BlockStatement", 2)>>
    [] OTHER ->
         <<Leaf("Program", NoNode),
           [N0 EXCEPT !.type = "VariableDeclaration", !.parent = 1, !.kind = "const"],
           [N0 EXCEPT !.type = "VariableDeclarator", !.parent = 2, !.id = 4, !.init = 5],
           Identifier("Hello", 3),
           [N0 EXCEPT !.type = ctx.fkind, !.parent = 3, !.params = ParamIds(5, ctx), !.component = ctx.comp]>>
         \o ParamNodes(5, ctx) \o <<Leaf("BlockStatement", 5)>>

\* The node the classifier registers as the component (NoNode: none).
ComponentNode(ctx) ==
  IF ctx.comp = "none" THEN NoNode
  ELSE IF ctx.c = "class" THEN 2
  ELSE IF ctx.c = "object" THEN 5
  ELSE IF ctx.fkind = "FunctionDeclaration" THEN 2 ELSE 5

\* ---- the declared schema:  Hello.propTypes = { a: <value> }; ----
\* decl = "plain" (a: string), "fn" (a: function (props, propName) {}),
\* "fnpat" (a: function ({v}, propName) {}) or "none".
DeclNodes(base, decl) ==
  IF decl = "none" THEN <<>>
  ELSE <<Leaf("ExpressionStatement", 1),
         [N0 EXCEPT !.type = "AssignmentExpression", !.parent = base + 1, !.left = base + 3],
         [N0 EXCEPT !.type = "MemberExpression", !.parent = base + 2, !.object = base + 4, !.property = base + 5],
         Identifier("Hello", base + 3),
         Identifier("propTypes", base + 3),
         [N0 EXCEPT !.type = "ObjectExpression", !.parent = base + 2, !.properties = <<base + 7>>],
         [N0 EXCEPT !.type = "Property", !.parent = base + 6, !.kind = "init", !.key = base + 8, !.valueNode = base + 9],
         Identifier("a", base + 7)>>
       \o (CASE decl = "plain" -> <<Identifier("string", base + 7)>>
             [] decl = "fn" ->
                  <<[N0 EXCEPT !.type = "FunctionExpression", !.parent = base + 7, !.params = <<base + 10, base + 11>>],
                    Identifier("props", base + 9), Identifier("propName", base + 9), Leaf("BlockStatement", base + 9)>>
             [] decl = "fnpat" ->
                  <<[N0 EXCEPT !.type = "FunctionExpression", !.parent = base + 7, !.params = <<base + 10, base + 14>>]>>
                  \o Pattern(base + 9, base + 9, <<[k |-> "plain", n |-> "v"]>>)
                  \o <<Identifier("propName", base + 9), Leaf("BlockStatement", base + 9)>>)

\* A source unit: the enclosing construct, two statements in the body of its
\* function, the declared schema, whether the component opted out of props
\* validation, and the React version of the settings.
P0 == [c |-> "class", method |-> "render", comp |-> "class", fkind |-> "FunctionExpression", pk |-> "ident", pfields |-> <<>>, pre |-> SD0, main |-> SD0, decl |-> "none", ignorePropsValidation |-> FALSE, react |-> <<16, 3>>]

\* The nodes of a unit, assembled front to back: the construct sk and the
\* first statement of its body, then the second statement, then the schema.
WithPre(p, sk) == sk \o StmtNodes(Len(sk), Len(sk), p.pre)
WithMain(p, block, nodes) == nodes \o StmtNodes(Len(nodes), block, p.main)
WithDecl(p, nodes) == nodes \o DeclNodes(Len(nodes), p.decl)
\* node.start: every node starts at its own offset.
Numbered(nodes) == [i \in 1..Len(nodes) |-> [nodes[i] EXCEPT !.start = i]]

Build(p) == Numbered(WithDecl(p, WithMain(p, Len(Skeleton(p)), WithPre(p, Skeleton(p)))))

\* Where the statements and the schema start in Build(p).
PreBase(p) == Len(Skeleton(p))
MainBase(p) == Len(WithPre(p, Skeleton(p)))
DeclBase(p) == Len(WithMain(p, 0, WithPre(p, Skeleton(p))))

(***************************************************************************)
(* The collaborators of the engine.                                        *)
(***************************************************************************)
\* context.getScope(), called while the traversal is at node cur: the blocks
\* of the enclosing scopes, innermost first (scope, scope.upper, ...).
ScopeBlockTypes == {"Program", "ClassDeclaration", "FunctionDeclaration", "FunctionExpression", "ArrowFunctionExpression"}
FunctionTypes == {"FunctionDeclaration", "FunctionExpression", "ArrowFunctionExpression"}

RECURSIVE getScope(_, _)
getScope(t, cur) ==
  IF cur = NoNode THEN <<>>
  ELSE IF t[cur].type \in ScopeBlockTypes THEN <<cur>> \o getScope(t, t[cur].parent)
  ELSE getScope(t, t[cur].parent)

\* context.getSourceCode().getText(node) and .getTokens(node): the tokens of
\* the node's source text.
RECURSIVE getText(_, _)
getText(t, n) ==
  LET nd == t[n]
  IN CASE nd.type = "Identifier" -> <<nd.name>>
       [] nd.type = "ThisExpression" -> <<"this">>
       [] nd.type = "Literal" -> <<nd.value>>
       [] nd.type = "MemberExpression" ->
            IF nd.computed THEN getText(t, nd.object) \o <<"[">> \o getText(t, nd.property) \o <<"]">>
            ELSE getText(t, nd.object) \o <<".">> \o getText(t, nd.property)
       [] nd.type = "Property" ->
            IF nd.computed THEN <<"[">> \o getText(t, nd.key) \o <<"]", ":">> \o getText(t, nd.valueNode)
            ELSE getText(t, nd.key) \o <<":">> \o getText(t, nd.valueNode)
       [] nd.type = "RestElement" -> <<"...">> \o getText(t, nd.argument)
       [] OTHER -> <<nd.type>>

\* ast.getKeyValue: the declared key name of a pattern field.
getKeyValue(t, n) ==
  LET key == IF t[n].key # NoNode THEN t[n].key ELSE t[n].argument
  IN IF t[key].type = "Identifier" THEN t[key].name ELSE t[key].value

\* ast.isAssignmentLHS
isAssignmentLHS(t, n) ==
  /\ t[n].parent # NoNode
  /\ t[t[n].parent].type = "AssignmentExpression"
  /\ t[t[n].parent].left = n

\* ast.isFunctionLikeExpression
isFunctionLikeExpression(t, n) == t[n].type \in {"FunctionExpression", "ArrowFunctionExpression"}

\* utils.inConstructor
inConstructor(t, cur) ==
  LET sc == getScope(t, cur)
  IN \E i \in 1..Len(sc) : t[sc[i]].parent # NoNode /\ t[t[sc[i]].parent].kind = "constructor"

\* utils.getParentES6Component: the nearest enclosing class, when it is a component.
getParentES6Component(t, cur) ==
  LET sc == getScope(t, cur)
      cls == {i \in 1..Len(sc) : t[sc[i]].type = "ClassDeclaration"}
  IN IF cls = {} THEN NoNode
     ELSE LET i == CHOOSE i \in cls : \A j \in cls : i <= j
          IN IF t[sc[i]].component = "class" THEN sc[i] ELSE NoNode

\* utils.getParentES5Component: the object literal around an enclosing method,
\* when it is a component.
getParentES5Component(t, cur) ==
  LET sc == getScope(t, cur)
      owner(i) == IF t[sc[i]].parent = NoNode THEN NoNode ELSE t[t[sc[i]].parent].parent
      hit == {i \in 1..Len(sc) : owner(i) # NoNode /\ t[owner(i)].component = "es5"}
  IN IF hit = {} THEN NoNode ELSE owner(CHOOSE i \in hit : \A j \in hit : i <= j)

\* utils.getParentStatelessComponent: the nearest enclosing function that is a
\* component, with no class in between.
getParentStatelessComponent(t, cur) ==
  LET sc == getScope(t, cur)
      stop == {i \in 1..Len(sc) : t[sc[i]].type = "ClassDeclaration" \/ t[sc[i]].component = "stateless"}
  IN IF stop = {} THEN NoNode
     ELSE LET i == CHOOSE i \in stop : \A j \in stop : i <= j
          IN IF t[sc[i]].component = "stateless" THEN sc[i] ELSE NoNode

\* utils.getParentComponent
getParentComponent(t, cur) ==
  IF getParentES6Component(t, cur) # NoNode THEN getParentES6Component(t, cur)
  ELSE IF getParentES5Component(t, cur) # NoNode THEN getParentES5Component(t, cur)
  ELSE getParentStatelessComponent(t, cur)

\* The registry.  An entry holds the fields the engine reads or writes; an
\* absent entry is NoEntry.
NoEntry == [present |-> FALSE, usedPropTypes |-> <<>>, ignoreUnusedPropTypesValidation |-> FALSE, declaredPropTypes |-> <<>>, ignorePropsValidation |-> FALSE]

\* components.get(key)
componentsGet(reg, key) == IF key = NoNode THEN NoEntry ELSE reg[key]

\* components.set(key, fields): merge the given fields into the entry of key.
\* fields.hasUsed tells whether usedPropTypes is among them.
componentsSet(reg, key, fields) ==
  [reg EXCEPT ![key] = [@ EXCEPT !.present = TRUE,
                                 !.usedPropTypes = IF fields.hasUsed THEN fields.usedPropTypes ELSE @,
                                 !.ignoreUnusedPropTypesValidation = fields.ignoreUnusedPropTypesValidation]]

(***************************************************************************)
(* lib/util/usedPropTypes.js                                               *)
(***************************************************************************)
LIFE_CYCLE_METHODS == {"componentWillReceiveProps", "shouldComponentUpdate", "componentWillUpdate", "componentDidUpdate"}
ASYNC_SAFE_LIFE_CYCLE_METHODS == {"getDerivedStateFromProps", "getSnapshotBeforeUpdate", "UNSAFE_componentWillReceiveProps", "UNSAFE_componentWillUpdate"}
COMPUTED_PROP == "__COMPUTED_PROP__"

\* /^props\s*(\.|\[)/ and its nextProps, prevProps variants, on a token list.
DirectRegex(root, text) == Len(text) >= 2 /\ text[1] = root /\ text[2] \in {".", "["}
DIRECT_PROPS_REGEX(text) == DirectRegex("props", text)
DIRECT_NEXT_PROPS_REGEX(text) == DirectRegex("nextProps", text)
DIRECT_PREV_PROPS_REGEX(text) == DirectRegex("prevProps", text)

isPropAttributeName(t, n) == t[t[n].init].name \in {"props", "nextProps", "prevProps"}

mustBeValidated(component) == component.present /\ ~component.ignorePropsValidation

\* scope.block.parent.key.name, undefined when there is no such key.
BlockKeyName(t, b) ==
  IF t[b].parent # NoNode /\ t[t[b].parent].key # NoNode THEN t[t[t[b].parent].key].name ELSE UNDEF

inComponentWillReceiveProps(t, cur) ==
  LET sc == getScope(t, cur)
  IN \E i \in 1..Len(sc) : BlockKeyName(t, sc[i]) = "componentWillReceiveProps"

IsLifeCycleNameMutant(name, check) == name \in LIFE_CYCLE_METHODS \/ name \in ASYNC_SAFE_LIFE_CYCLE_METHODS

\* The name test shared by inLifeCycleMethod and isNodeALifeCycleMethod.
IsLifeCycleName(name, check) ==
  \/ name \in LIFE_CYCLE_METHODS
  \/ check /\ name \in ASYNC_SAFE_LIFE_CYCLE_METHODS

inLifeCycleMethod(t, cur, check) ==
  LET sc == getScope(t, cur)
  IN \E i \in 1..Len(sc) :
       /\ t[sc[i]].parent # NoNode
       /\ t[t[sc[i]].parent].key # NoNode
       /\ IsLifeCycleName(BlockKeyName(t, sc[i]), check)

isNodeALifeCycleMethod(t, n, check) ==
  LET nodeKeyName == IF t[n].key # NoNode THEN t[t[n].key].name ELSE UNDEF
  IN \/ t[n].kind = "constructor"
     \/ IsLifeCycleName(nodeKeyName, check)

RECURSIVE isInLifeCycleMethod(_, _, _)
isInLifeCycleMethod(t, n, check) ==
  IF t[n].type \in {"MethodDefinition", "Property"} /\ isNodeALifeCycleMethod(t, n, check) THEN TRUE
  ELSE IF t[n].parent # NoNode THEN isInLifeCycleMethod(t, t[n].parent, check)
  ELSE FALSE

IsSetStateCallMutant(t, b) ==
  /\ t[b].parent # NoNode
  /\ t[t[b].parent].type = "CallExpression"
  /\ t[t[t[b].parent].callee].property # NoNode
  /\ t[t[t[t[b].parent].callee].property].name = "setState"

\* The test of one scope block b in inSetStateUpdater: b is the first argument
\* of a .setState(...) call.
IsSetStateCall(t, b) ==
  /\ t[b].parent # NoNode
  /\ t[t[b].parent].type = "CallExpression"
  /\ t[t[t[b].parent].callee].property # NoNode
  /\ t[t[t[t[b].parent].callee].property].name = "setState"
  /\ t[t[t[b].parent].arguments[1]].start = t[b].start

inSetStateUpdater(t, cur) ==
  LET sc == getScope(t, cur)
  IN \E i \in 1..Len(sc) : IsSetStateCall(t, sc[i])

isPropArgumentInSetStateUpdater(t, cur, node) ==
  LET sc == getScope(t, cur)
      arg0(b) == t[t[t[b].parent].arguments[1]]
      hit == {i \in 1..Len(sc) : IsSetStateCall(t, sc[i]) /\ Len(arg0(sc[i]).params) > 1}
  IN IF hit = {} THEN FALSE
     ELSE LET b == sc[CHOOSE i \in hit : \A j \in hit : i <= j]
          IN t[arg0(b).params[2]].name = t[t[node].object].name

hasSpreadOperator(t, n) ==
  LET tokens == getText(t, n)
  IN Len(tokens) > 0 /\ tokens[1] = "..."

\* The switch on node.property of getPropertyName; node is NoNode-free, its
\* property may be absent.
PropertyNameOf(t, n) ==
  LET property == t[n].property
  IN IF property = NoNode THEN UNDEF
     ELSE CASE t[property].type = "Identifier" -> IF t[n].computed THEN COMPUTED_PROP ELSE t[property].name
            [] t[property].type = "MemberExpression" -> UNDEF
            [] t[property].type = "Literal" /\ t[property].typeofValue = "string" -> t[property].value
            [] OTHER -> IF t[n].computed THEN COMPUTED_PROP ELSE UNDEF

getPropertyName(t, check, cur, node) ==
  LET text == getText(t, node)
      isDirectProp == DIRECT_PROPS_REGEX(text)
      isDirectNextProp == DIRECT_NEXT_PROPS_REGEX(text)
      isDirectPrevProp == DIRECT_PREV_PROPS_REGEX(text)
      isDirectSetStateProp == isPropArgumentInSetStateUpdater(t, cur, node)
      isInClassComponent == getParentES6Component(t, cur) # NoNode \/ getParentES5Component(t, cur) # NoNode
      isNotInConstructor == ~inConstructor(t, cur)
      isNotInLifeCycleMethod == ~inLifeCycleMethod(t, cur, check)
      isNotInSetStateUpdater == ~inSetStateUpdater(t, cur)
      direct == isDirectProp \/ isDirectNextProp \/ isDirectPrevProp \/ isDirectSetStateProp
  IN IF direct /\ isInClassComponent /\ isNotInConstructor /\ isNotInLifeCycleMethod /\ isNotInSetStateUpdater
       THEN UNDEF
       ELSE PropertyNameOf(t, IF direct THEN node ELSE t[node].parent)

isPropTypesUsage(t, check, cur, node) ==
  LET isThisPropsUsage == t[t[node].object].type = "ThisExpression" /\ t[t[node].property].name = "props"
      isPropsUsage == isThisPropsUsage \/ t[t[node].object].name = "nextProps" \/ t[t[node].object].name = "prevProps"
      isClassUsage == /\ (getParentES6Component(t, cur) # NoNode \/ getParentES5Component(t, cur) # NoNode)
                      /\ (isThisPropsUsage \/ isPropArgumentInSetStateUpdater(t, cur, node))
      isStatelessFunctionUsage == t[t[node].object].name = "props" /\ ~isAssignmentLHS(t, node)
  IN isClassUsage \/ isStatelessFunctionUsage \/ (isPropsUsage /\ inLifeCycleMethod(t, cur, check))

\* ---- markPropTypesAsUsed ----
NoError == "none"
\* JavaScript truthiness of a string or undefined.
Truthy(s) == s # UNDEF /\ s # ""
\* The names `name in Object.prototype' accepts.
ObjectPrototype == {"constructor", "hasOwnProperty", "isPrototypeOf", "propertyIsEnumerable", "toLocaleString", "toString", "valueOf", "__proto__", "__defineGetter__", "__defineSetter__", "__lookupGetter__", "__lookupSetter__"}

\* What the first switch of markPropTypesAsUsed leaves behind: type, name,
\* allNames, properties, the node of its recursive call (or NoNode) and the
\* error it throws (or NoError).
Outcome0 == [type |-> "none", name |-> UNDEF, allNames |-> <<>>, properties |-> <<>>, recurse |-> NoNode, error |-> NoError]

UsageTypeMutant(name) == "direct"

\* type = name !== '__COMPUTED_PROP__' ? 'direct' : null
UsageType(name) == IF name # COMPUTED_PROP THEN "direct" ELSE "none"

ChainContinuesMutant(t, node) == FALSE

\* Match props.foo.bar, don't match bar[props.foo]
ChainContinues(t, node) ==
  /\ t[t[node].parent].type = "MemberExpression"
  /\ t[t[node].parent].object = node

\* Lines 261-285, name being the value of getPropertyName(node).
MemberExpressionNamed(t, node, parentNames, name) ==
  LET id == t[t[node].parent].id
  IN IF Truthy(name)
       THEN [Outcome0 EXCEPT !.type = UsageType(name), !.name = name, !.allNames = parentNames \o <<name>>,
                             !.recurse = IF ChainContinues(t, node) THEN t[node].parent ELSE NoNode]
     ELSE IF /\ id # NoNode
             /\ Len(t[id].properties) > 0
             /\ Truthy(getKeyValue(t, t[id].properties[1]))
       THEN [Outcome0 EXCEPT !.type = "destructuring", !.properties = t[id].properties]
     ELSE Outcome0

MemberExpressionCase(t, check, cur, node, parentNames) ==
  MemberExpressionNamed(t, node, parentNames, getPropertyName(t, check, cur, node))

PropParamIndexMutant(t, cur) == 2

\* inSetStateUpdater(context) ? node.params[1] : node.params[0], as an index
\* from 1.
PropParamIndex(t, cur) == IF inSetStateUpdater(t, cur) THEN 2 ELSE 1

FunctionCase(t, cur, node) ==
  LET params == t[node].params
      k == PropParamIndex(t, cur)
  IN IF Len(params) = 0 THEN Outcome0
     ELSE IF k > Len(params) THEN [Outcome0 EXCEPT !.error = "TypeError"]
     ELSE LET propParam == t[params[k]]
          IN [Outcome0 EXCEPT !.type = "destructuring",
                              !.properties = IF propParam.type = "AssignmentPattern" THEN t[propParam.left].properties ELSE propParam.properties]

VariableDeclaratorCase(t, check, cur, node) ==
  LET props == t[t[node].id].properties
      thisDestructuring(i) ==
        LET property == t[props[i]]
        IN /\ property.key # NoNode
           /\ t[property.key].name = "props" \/ t[property.key].value = "props"
           /\ t[property.valueNode].type = "ObjectPattern"
      genericDestructuring ==
        /\ isPropAttributeName(t, node)
        /\ getParentStatelessComponent(t, cur) # NoNode \/ isInLifeCycleMethod(t, node, check)
      hit == {i \in 1..Len(props) : thisDestructuring(i) \/ genericDestructuring}
  IN IF hit = {} THEN Outcome0
     ELSE LET i == CHOOSE i \in hit : \A j \in hit : i <= j
          IN [Outcome0 EXCEPT !.type = "destructuring",
                              !.properties = IF thisDestructuring(i) THEN t[t[props[i]].valueNode].properties ELSE props]

UnhandledSilently(t, node) == Outcome0

\* default: throw new Error(`${node.type} ASTNodes are not handled ...`)
Unhandled(t, node) == [Outcome0 EXCEPT !.error = t[node].type]

FirstSwitch(t, check, cur, node, parentNames) ==
  CASE t[node].type = "MemberExpression" -> MemberExpressionCase(t, check, cur, node, parentNames)
    [] t[node].type \in FunctionTypes -> FunctionCase(t, cur, node)
    [] t[node].type = "VariableDeclarator" -> VariableDeclaratorCase(t, check, cur, node)
    [] OTHER -> Unhandled(t, node)

InitialUsedPropTypesMutant(component) == <<>>

\* component && component.usedPropTypes || []
InitialUsedPropTypes(component) == IF component.present THEN component.usedPropTypes ELSE <<>>

InitialIgnoreMutant(component) == FALSE

\* component && component.ignoreUnusedPropTypesValidation || false
InitialIgnore(component) == component.present /\ component.ignoreUnusedPropTypesValidation

\* case 'direct'
DirectRecord(t, cur, node, c) ==
  LET nodeSource == getText(t, node)
      isDirectProp == DIRECT_PROPS_REGEX(nodeSource) \/ DIRECT_NEXT_PROPS_REGEX(nodeSource) \/ DIRECT_PREV_PROPS_REGEX(nodeSource)
      reportedNode == IF ~isDirectProp /\ ~inConstructor(t, cur) /\ ~inComponentWillReceiveProps(t, cur)
                        THEN t[t[node].parent].property
                        ELSE t[node].property
  IN IF c.name \in ObjectPrototype THEN <<>>
     ELSE <<[name |-> c.name, allNames |-> c.allNames, node |-> reportedNode]>>

\* hasSpreadOperator(context, properties[k]) || properties[k].computed
Unsound(t, n) == hasSpreadOperator(t, n) \/ t[n].computed

\* while (currentNode.property && currentNode.property.name !== 'props')
RECURSIVE OuterNames(_, _)
OuterNames(t, currentNode) ==
  IF t[currentNode].property # NoNode /\ t[t[currentNode].property].name # "props"
    THEN OuterNames(t, t[currentNode].object) \o <<t[t[currentNode].property].name>>
    ELSE <<>>

RECURSIVE DestructuredRecords(_, _, _, _)

AfterUnsoundContinues(t, node, properties, k) == DestructuredRecords(t, node, properties, k + 1)

\* ignoreUnusedPropTypesValidation = true; break;
AfterUnsound(t, node, properties, k) == <<>>

\* The records the loop of case 'destructuring' pushes from index k on.
DestructuredRecords(t, node, properties, k) ==
  IF k > Len(properties) THEN <<>>
  ELSE IF Unsound(t, properties[k]) THEN AfterUnsound(t, node, properties, k)
  ELSE LET propName == getKeyValue(t, properties[k])
           rec == [name |-> propName, allNames |-> OuterNames(t, node) \o <<propName>>, node |-> properties[k]]
       IN (IF Truthy(propName) THEN <<rec>> ELSE <<>>) \o DestructuredRecords(t, node, properties, k + 1)

\* Lines 326-385: read the owning component, extend its usage list and its
\* flag, and write both back.
StoreFor(t, cur, reg, node, c, key) ==
  LET component == componentsGet(reg, key)
      added == CASE c.type = "direct" -> DirectRecord(t, cur, node, c)
                 [] c.type = "destructuring" -> DestructuredRecords(t, node, c.properties, 1)
                 [] OTHER -> <<>>
      unsound == c.type = "destructuring" /\ \E k \in 1..Len(c.properties) : Unsound(t, c.properties[k])
  IN componentsSet(reg, IF component.present THEN key ELSE node,
                   [hasUsed |-> TRUE,
                    usedPropTypes |-> InitialUsedPropTypes(component) \o added,
                    ignoreUnusedPropTypesValidation |-> InitialIgnore(component) \/ unsound])

Store(t, cur, reg, node, c) == StoreFor(t, cur, reg, node, c, getParentComponent(t, cur))

Ok(reg) == [list |-> reg, error |-> NoError]

\* The rest of a call once its recursive call has returned inner.
StoreAfter(t, cur, node, c, inner) ==
  IF inner.error # NoError THEN inner ELSE Ok(Store(t, cur, inner.list, node, c))

RECURSIVE markPropTypesAsUsed(_, _, _, _, _, _)
\* A call whose first switch left c behind.
Marked(t, check, cur, reg, node, c) ==
  IF c.error # NoError THEN [list |-> reg, error |-> c.error]
  ELSE IF c.recurse # NoNode
    THEN StoreAfter(t, cur, node, c, markPropTypesAsUsed(t, check, cur, reg, c.recurse, c.allNames))
  ELSE Ok(Store(t, cur, reg, node, c))

\* The result of a call: the registry it leaves and the error it throws.
markPropTypesAsUsed(t, check, cur, reg, node, parentNames) ==
  Marked(t, check, cur, reg, node, FirstSwitch(t, check, cur, node, parentNames))

markDestructuredFunctionArgumentsAsUsed(t, check, cur, reg, node) ==
  LET params == t[node].params
      k == PropParamIndex(t, cur)
      param == IF k <= Len(params) THEN params[k] ELSE NoNode
      destructuring ==
        /\ param # NoNode
        /\ \/ t[param].type = "ObjectPattern"
           \/ t[param].type = "AssignmentPattern" /\ t[t[param].left].type = "ObjectPattern"
  IN IF destructuring /\ (componentsGet(reg, node).present \/ componentsGet(reg, t[node].parent).present)
       THEN markPropTypesAsUsed(t, check, cur, reg, node, <<>>)
       ELSE Ok(reg)

handleSetStateUpdater(t, check, cur, reg, node) ==
  IF Len(t[node].params) < 2 \/ ~inSetStateUpdater(t, cur) THEN Ok(reg)
  ELSE markPropTypesAsUsed(t, check, cur, reg, node, <<>>)

\* r is what the first of two calls returned: an error it threw ends the
\* handler, otherwise next, the result of the second call, is the result.
Sequenced(r, next) == IF r.error # NoError THEN r ELSE next

\* The second call of handleFunctionLikeExpressions, after r.
ThenDestructured(t, check, cur, node, r) ==
  Sequenced(r, markDestructuredFunctionArgumentsAsUsed(t, check, cur, r.list, node))

handleFunctionLikeExpressions(t, check, cur, reg, node) ==
  ThenDestructured(t, check, cur, node, handleSetStateUpdater(t, check, cur, reg, node))

\* Object.keys(propTypes).forEach(...), from the k-th declared prop on.
RECURSIVE handleCustomValidators(_, _, _, _, _, _)
\* The iterations after the k-th, r being what the k-th returned.
ThenValidators(t, check, cur, propTypes, k, r) ==
  Sequenced(r, handleCustomValidators(t, check, cur, r.list, propTypes, k + 1))

handleCustomValidators(t, check, cur, reg, propTypes, k) ==
  IF k > Len(propTypes) THEN Ok(reg)
  ELSE LET value == t[propTypes[k]].valueNode
       IN ThenValidators(t, check, cur, propTypes, k,
                         IF value # NoNode /\ isFunctionLikeExpression(t, value)
                           THEN markPropTypesAsUsed(t, check, cur, reg, value, <<>>)
                           ELSE Ok(reg))

\* ---- the listeners ----
\* The VariableDeclarator listener goes on to markPropTypesAsUsed: it has not
\* returned at `if (!thisDestructuring && !statelessDestructuring)'.
VariableDeclaratorMarks(t, check, n) ==
  LET node == t[n]
      destructuring == node.init # NoNode /\ node.id # NoNode /\ t[node.id].type = "ObjectPattern"
      thisDestructuring == destructuring /\ t[node.init].type = "ThisExpression"
      statelessDestructuring ==
        /\ destructuring
        /\ isPropAttributeName(t, n)
        /\ getParentStatelessComponent(t, n) # NoNode \/ isInLifeCycleMethod(t, n, check)
  IN thisDestructuring \/ statelessDestructuring

OnVariableDeclarator(t, check, reg, n) ==
  IF VariableDeclaratorMarks(t, check, n) THEN markPropTypesAsUsed(t, check, n, reg, n, <<>>) ELSE Ok(reg)

\* components.set(component ? component.node : node, {ignoreUnused...: true})
SuppressFor(reg, n, key) ==
  Ok(componentsSet(reg, IF componentsGet(reg, key).present THEN key ELSE n,
                   [hasUsed |-> FALSE, usedPropTypes |-> <<>>, ignoreUnusedPropTypesValidation |-> TRUE]))

OnJSXSpreadAttribute(t, reg, n) == SuppressFor(reg, n, getParentComponent(t, n))

OnMemberExpression(t, check, reg, n) ==
  IF isPropTypesUsage(t, check, n, n) THEN markPropTypesAsUsed(t, check, n, reg, n, <<>>) ELSE Ok(reg)

\* The condition under which the ObjectPattern listener forwards the parent
\* of the pattern to markPropTypesAsUsed.
ObjectPatternForwards(t, check, n) ==
  isNodeALifeCycleMethod(t, t[t[n].parent].parent, check) /\ Len(t[n].properties) > 0

OnObjectPattern(t, check, reg, n) ==
  IF ObjectPatternForwards(t, check, n)
    THEN markPropTypesAsUsed(t, check, n, reg, t[n].parent, <<>>)
    ELSE Ok(reg)

\* 'Program:exit': the custom validators of the components that must be
\* validated, the components of keys taken in key order from k on.  The
\* scope at Program:exit is that of the Program node.
RECURSIVE ExitFrom(_, _, _, _, _)
\* The components after the k-th, r being what the k-th returned.
ThenExit(t, check, keys, k, r) == Sequenced(r, ExitFrom(t, check, r.list, keys, k + 1))

ExitFrom(t, check, reg, keys, k) ==
  IF k > Len(t) THEN Ok(reg)
  ELSE IF k \notin keys \/ ~mustBeValidated(reg[k]) THEN ExitFrom(t, check, reg, keys, k + 1)
  ELSE ThenExit(t, check, keys, k, handleCustomValidators(t, check, 1, reg, reg[k].declaredPropTypes, 1))

OnProgramExit(t, check, reg) == ExitFrom(t, check, reg, {k \in 1..Len(t) : reg[k].present}, 1)

(***************************************************************************)
(* The source units analysed.                                              *)
(***************************************************************************)
Seqs(S, n) == UNION {[1..m -> S] : m \in 0..n}

StepKinds == {[k |-> "id", n |-> "a"], [k |-> "id", n |-> "b"], [k |-> "id", n |-> "toString"], [k |-> "cid", n |-> "x"], [k |-> "str", n |-> "y"]}
FieldKinds == {[k |-> "plain", n |-> "a"], [k |-> "plain", n |-> "b"], [k |-> "str", n |-> "y"], [k |-> "comp", n |-> "x"], [k |-> "rest", n |-> "rest"]}
Chains == Seqs(StepKinds, MaxChain) \ {<<>>}
Patterns == {f \in Seqs(FieldKinds, MaxFields) : \A i \in 1..(Len(f) - 1) : f[i].k # "rest"}
ShortPatterns == {f \in Patterns : Len(f) <= 1}

Methods == {"render", "constructor"} \cup LIFE_CYCLE_METHODS \cup ASYNC_SAFE_LIFE_CYCLE_METHODS
Versions == {<<16, 2>>, <<16, 3>>}

ClassCtx(m) == [P0 EXCEPT !.method = m]
ObjectCtx(m, comp) == [P0 EXCEPT !.c = "object", !.method = m, !.comp = comp]
FunctionCtx(fkind, comp) == [P0 EXCEPT !.c = "function", !.fkind = fkind, !.comp = comp]
\* The enclosing constructs under both React versions.
Versioned(ctxs) == {[ctx EXCEPT !.react = v] : ctx \in ctxs, v \in Versions}
MethodContexts == Versioned({ClassCtx(m) : m \in LIFE_CYCLE_METHODS \cup ASYNC_SAFE_LIFE_CYCLE_METHODS}) \cup {ClassCtx("render"), ClassCtx("constructor")}

JsxSD == [SD0 EXCEPT !.f = "jsx"]
ChainSD(root, steps, tail) == [SD0 EXCEPT !.f = "chain", !.root = root, !.steps = steps, !.tail = tail, !.fields = IF tail = "decl" THEN <<[k |-> "plain", n |-> "c"]>> ELSE <<>>]
FlatSD(root, fields) == [SD0 EXCEPT !.f = "chain", !.root = root, !.tail = "decl", !.fields = fields]
NestedSD(key, wrap, root, fields) == [SD0 EXCEPT !.f = "nested", !.key = key, !.wrap = wrap, !.root = root, !.fields = fields]
SetStateSD(callee, argpos, fparams, root) == [SD0 EXCEPT !.f = "setState", !.callee = callee, !.argpos = argpos, !.fparams = fparams, !.root = root, !.steps = <<[k |-> "id", n |-> "x"]>>, !.fields = IF fparams = "pat" THEN <<[k |-> "plain", n |-> "a"]>> ELSE <<>>]
UseSD == ChainSD("this", <<[k |-> "id", n |-> "b"]>>, "stmt")

\* Member chains in every kind of enclosing construct.
ChainContexts == Versioned({ClassCtx("getDerivedStateFromProps")}) \cup {ClassCtx("render"), ClassCtx("constructor"), ClassCtx("componentWillReceiveProps"), ObjectCtx("componentDidUpdate", "none"), ObjectCtx("render", "es5"), FunctionCtx("ArrowFunctionExpression", "stateless"), FunctionCtx("ArrowFunctionExpression", "none")}
ChainRoots == {"this", "props", "nextProps", "prevProps"}
ShortChains == {c \in Chains : Len(c) = 1} \cup {<<[k |-> "num", n |-> "0"]>>}
ChainStmts ==
  {ChainSD(root, steps, "stmt") : root \in ChainRoots, steps \in Chains}
  \cup {ChainSD(root, steps, tail) : root \in ChainRoots, steps \in ShortChains, tail \in {"stmt", "decl", "index", "assign"}}
ChainPrograms ==
  {[ctx EXCEPT !.main = main] : ctx \in ChainContexts, main \in ChainStmts}
  \cup {[ctx EXCEPT !.pre = JsxSD, !.main = ChainSD(root, steps, "stmt")] : ctx \in ChainContexts, root \in ChainRoots, steps \in ShortChains}
  \cup {[ctx EXCEPT !.main = ChainSD("this", steps, "decl")] : ctx \in {ClassCtx("render")}, steps \in Chains}
  \cup {[ctx EXCEPT !.main = ChainSD(root, steps, "stmt")] : ctx \in MethodContexts, root \in {"nextProps", "prevProps"}, steps \in ShortChains}

\* const {fields} = props; and its variants, in every method and function.
FlatRoots == {"props", "nextProps", "prevProps", "foo", "self", "this"}
FlatPrograms ==
  {[ctx EXCEPT !.pre = pre, !.main = FlatSD(root, fields)] :
     ctx \in {ClassCtx("render"), ClassCtx("componentDidUpdate"), FunctionCtx("ArrowFunctionExpression", "stateless")},
     pre \in {SD0, JsxSD, UseSD}, root \in FlatRoots, fields \in Patterns}
  \cup {[ctx EXCEPT !.main = FlatSD(root, fields)] :
          ctx \in MethodContexts \cup {ObjectCtx("componentDidUpdate", "none"), FunctionCtx("FunctionExpression", "none")},
          root \in FlatRoots, fields \in ShortPatterns \cup {<<[k |-> "plain", n |-> "a"], [k |-> "plain", n |-> "b"]>>}}

\* const {key: {fields}} = this; and its variants.
NestedKeys == {"props", "q", "componentDidUpdate", "getSnapshotBeforeUpdate"}
NestedPrograms ==
  {[ctx EXCEPT !.pre = pre, !.main = NestedSD(key, wrap, root, fields), !.react = v] :
     ctx \in {ClassCtx("render"), FunctionCtx("ArrowFunctionExpression", "none")},
     pre \in {SD0, UseSD}, key \in NestedKeys, wrap \in {"none", "default"}, root \in {"self", "props", "obj"},
     fields \in ShortPatterns, v \in Versions}
  \cup {[ctx EXCEPT !.main = NestedSD("props", "none", "self", fields)] :
          ctx \in {ClassCtx("render"), ClassCtx("componentDidUpdate")}, fields \in Patterns}

\* this.setState(...) with a function argument.
SetStatePrograms ==
  {[ctx EXCEPT !.pre = pre, !.main = SetStateSD(callee, argpos, fparams, root)] :
     ctx \in {ClassCtx("handleClick"), ClassCtx("constructor"), ClassCtx("componentDidUpdate"), ObjectCtx("handleClick", "none")},
     pre \in {SD0, JsxSD}, callee \in {"setState", "update"}, argpos \in {1, 2},
     fparams \in {"none", "one", "props", "p", "pat"}, root \in {"props", "p", "this", "nextProps"}}

\* Functions with a destructured parameter, components or not.
ParamPrograms ==
  {[FunctionCtx(fkind, comp) EXCEPT !.pk = pk, !.pfields = pfields, !.main = main] :
     fkind \in FunctionTypes, comp \in {"stateless", "none"}, pk \in {"pat", "defpat"}, pfields \in Patterns,
     main \in {SD0, JsxSD}}
  \cup {[FunctionCtx(fkind, comp) EXCEPT !.pk = pk, !.main = main] :
          fkind \in FunctionTypes, comp \in {"stateless", "none"}, pk \in {"none", "ident"},
          main \in {SD0, JsxSD, ChainSD("props", <<[k |-> "id", n |-> "a"]>>, "stmt")}}

\* Methods with a destructured parameter.
SignaturePrograms ==
  {[ctx EXCEPT !.pk = "pat", !.pfields = pfields, !.comp = IF detached THEN "none" ELSE @] :
     ctx \in MethodContexts \cup Versioned({ObjectCtx(m, "none") : m \in {"componentDidUpdate", "getSnapshotBeforeUpdate"}}),
     pfields \in Patterns, detached \in BOOLEAN}
  \cup {[ctx EXCEPT !.pk = "defpat", !.pfields = pfields] : ctx \in MethodContexts, pfields \in ShortPatterns}

\* Components with a declared schema.
ValidatorPrograms ==
  {[ctx EXCEPT !.decl = decl, !.ignorePropsValidation = ign, !.pre = pre, !.main = main] :
     ctx \in {ClassCtx("render"), FunctionCtx("FunctionDeclaration", "stateless")},
     decl \in {"plain", "fn", "fnpat"}, ign \in BOOLEAN,
     pre \in {SD0, JsxSD, UseSD}, main \in {SD0, JsxSD, UseSD}}

Programs == ChainPrograms \cup FlatPrograms \cup NestedPrograms \cup SetStatePrograms \cup ParamPrograms \cup SignaturePrograms \cup ValidatorPrograms

\* versionUtil.testReactVersion(context, '16.3.0') on the version of the settings.
testReactVersion(v) == v[1] > 16 \/ (v[1] = 16 /\ v[2] >= 3)

\* The registry before the traversal: the classifier has registered the
\* component, with its declared schema.
InitialRegistry(p, t) ==
  [n \in 1..Len(t) |->
     IF n = ComponentNode(p)
       THEN [NoEntry EXCEPT !.present = TRUE, !.ignorePropsValidation = p.ignorePropsValidation,
                            !.declaredPropTypes = IF p.decl = "none" THEN <<>> ELSE <<DeclBase(p) + 7>>]
       ELSE NoEntry]

(***************************************************************************)
(* The traversal.                                                          *)
(***************************************************************************)
VARIABLES prog, tree, checkAsyncSafeLifeCycles, list, pos, thrown, before, op, visited
vars == <<prog, tree, checkAsyncSafeLifeCycles, list, pos, thrown, before, op, visited>>

ListenerTypes == FunctionTypes \cup {"VariableDeclarator", "JSXSpreadAttribute", "MemberExpression", "ObjectPattern"}

\* The first node at or after index from that the engine listens to; past the
\* end of the tree when there is none.
NextListener(t, from) ==
  LET S == {i \in from..Len(t) : t[i].type \in ListenerTypes}
  IN IF S = {} THEN Len(t) + 1 ELSE CHOOSE i \in S : \A j \in S : i <= j

Init ==
  /\ prog \in Programs
  /\ tree = Build(prog)
  /\ checkAsyncSafeLifeCycles = testReactVersion(prog.react)
  /\ list = InitialRegistry(prog, tree)
  /\ pos = NextListener(tree, 1)
  /\ thrown = NoError
  /\ before = list
  /\ op = "init"
  /\ visited = NoNode

\* A listener has run on the node at pos with result r; an error it throws
\* ends the traversal.
Visit(name, r) ==
  /\ list' = r.list
  /\ thrown' = r.error
  /\ pos' = IF r.error # NoError THEN Len(tree) + 2 ELSE NextListener(tree, pos + 1)
  /\ before' = list
  /\ op' = name
  /\ visited' = pos
  /\ UNCHANGED <<prog, tree, checkAsyncSafeLifeCycles>>

\* Program:exit has run with result r.
Leave(r) ==
  /\ list' = r.list
  /\ thrown' = r.error
  /\ pos' = Len(tree) + 2
  /\ before' = list
  /\ op' = "Program:exit"
  /\ visited' = 1
  /\ UNCHANGED <<prog, tree, checkAsyncSafeLifeCycles>>

At(type) == thrown = NoError /\ pos <= Len(tree) /\ tree[pos].type = type

VariableDeclarator ==
  /\ At("VariableDeclarator")
  /\ Visit("VariableDeclarator", OnVariableDeclarator(tree, checkAsyncSafeLifeCycles, list, pos))

FunctionDeclaration ==
  /\ At("FunctionDeclaration")
  /\ Visit("FunctionDeclaration", handleFunctionLikeExpressions(tree, checkAsyncSafeLifeCycles, pos, list, pos))

ArrowFunctionExpression ==
  /\ At("ArrowFunctionExpression")
  /\ Visit("ArrowFunctionExpression", handleFunctionLikeExpressions(tree, checkAsyncSafeLifeCycles, pos, list, pos))

FunctionExpression ==
  /\ At("FunctionExpression")
  /\ Visit("FunctionExpression", handleFunctionLikeExpressions(tree, checkAsyncSafeLifeCycles, pos, list, pos))

JSXSpreadAttribute ==
  /\ At("JSXSpreadAttribute")
  /\ Visit("JSXSpreadAttribute", OnJSXSpreadAttribute(tree, list, pos))

MemberExpression ==
  /\ At("MemberExpression")
  /\ Visit("MemberExpression", OnMemberExpression(tree, checkAsyncSafeLifeCycles, list, pos))

ObjectPattern ==
  /\ At("ObjectPattern")
  /\ Visit("ObjectPattern", OnObjectPattern(tree, checkAsyncSafeLifeCycles, list, pos))

\* The end of the traversal: Program:exit runs once, after the last node.
ProgramExit ==
  /\ thrown = NoError
  /\ pos = Len(tree) + 1
  /\ Leave(OnProgramExit(tree, checkAsyncSafeLifeCycles, list))

Next ==
  \/ VariableDeclarator
  \/ FunctionDeclaration
  \/ ArrowFunctionExpression
  \/ FunctionExpression
  \/ JSXSpreadAttribute
  \/ MemberExpression
  \/ ObjectPattern
  \/ ProgramExit

Spec == Init /\ [][Next]_vars

(***************************************************************************)
(* The properties of the engine.  list is the registry after the last      *)
(* listener, before the registry it started from, op and visited name the  *)
(* listener and the node it ran on.                                        *)
(***************************************************************************)
\* The traversal has run to its end, Program:exit included, without an error.
Done == pos = Len(tree) + 2 /\ thrown = NoError /\ op = "Program:exit"

\* The paths of the usage records of entry n of registry reg, in list order.
Paths(reg, n) == [i \in 1..Len(reg[n].usedPropTypes) |-> reg[n].usedPropTypes[i].allNames]

IsPrefix(s, u) == Len(s) <= Len(u) /\ SubSeq(u, 1, Len(s)) = s

\* The records the last listener appended to entry n.
Added(n) == SubSeq(list[n].usedPropTypes, Len(before[n].usedPropTypes) + 1, Len(list[n].usedPropTypes))
AddedPaths(n) == [i \in 1..Len(Added(n)) |-> Added(n)[i].allNames]

\* The entry a listener on node n writes to, key being the component that
\* encloses n: that component when it is registered, else n itself.
OwnerOf(n, key) == IF key # NoNode /\ before[key].present THEN key ELSE n
Owner == OwnerOf(visited, getParentComponent(tree, visited))

\* The keys of the steps of a chain, in order.
StepNames(steps) == [i \in 1..Len(steps) |-> steps[i].n]

\* The elements of a set of indices S of sequence q, in index order.
RECURSIVE Pick(_, _)
Pick(q, S) ==
  IF S = {} THEN <<>>
  ELSE Pick(q, S \ {CHOOSE i \in S : \A j \in S : j <= i}) \o <<q[CHOOSE i \in S : \A j \in S : j <= i]>>

\* ---- C1 ----
\* The MemberExpression listener has marked an access whose first key is a
\* non-literal computed key.
ComputedAccess ==
  /\ op = "MemberExpression"
  /\ thrown = NoError
  /\ isPropTypesUsage(tree, checkAsyncSafeLifeCycles, visited, visited)
  /\ getPropertyName(tree, checkAsyncSafeLifeCycles, visited, visited) = COMPUTED_PROP

NoRecordOfComputedKey == \A n \in 1..Len(list) : \A i \in 1..Len(Added(n)) : Added(n)[i].name # COMPUTED_PROP

AccessNode == IF tree[tree[visited].object].type = "ThisExpression" THEN tree[visited].parent ELSE visited
\* The access is not continued: it is neither the object of a longer chain
\* nor the initializer of a declarator.
Standalone(access) ==
  /\ ~ChainContinues(tree, access)
  /\ tree[tree[access].parent].type # "VariableDeclarator"

C2_SuppressFlagMonotone ==
  \A n \in 1..Len(list) : before[n].ignoreUnusedPropTypesValidation => list[n].ignoreUnusedPropTypesValidation

C2_Witness ==
  /\ op \in {"MemberExpression", "VariableDeclarator"}
  /\ \E n \in 1..Len(list) :
       /\ before[n].ignoreUnusedPropTypesValidation
       /\ list[n].ignoreUnusedPropTypesValidation
       /\ Len(list[n].usedPropTypes) > Len(before[n].usedPropTypes)

\* ---- C3 ----
\* C3: for every registry key, the usage list stored before a listener ran is
\* a prefix of the usage list stored after it.
C3_UsageListAppendOnly ==
  \A n \in 1..Len(list) : IsPrefix(before[n].usedPropTypes, list[n].usedPropTypes)

C3_Witness ==
  \E n \in 1..Len(list) :
    /\ Len(before[n].usedPropTypes) > 0
    /\ Len(list[n].usedPropTypes) > Len(before[n].usedPropTypes)

\* ---- C4 ----
\* A class component whose only access is the statement this.props.f1...fn,
\* every step a plain member access, in render or componentWillReceiveProps,
\* at the end of the traversal.
C4Case ==
  /\ Done
  /\ prog.c = "class" /\ prog.comp = "class" /\ prog.method \in {"render", "componentWillReceiveProps"}
  /\ prog.pre.f = "none" /\ prog.decl = "none" /\ prog.pk = "ident"
  /\ prog.main.f = "chain" /\ prog.main.root = "this" /\ prog.main.tail = "stmt"
  /\ Len(prog.main.steps) >= 1
  /\ \A i \in 1..Len(prog.main.steps) : prog.main.steps[i].k = "id"

\* C4 as stated: the usage list of the component holds exactly one record,
\* its path is [f1, ..., fn], and the suppress flag is false.
C4_OneRecordPerChain ==
  C4Case =>
    /\ Paths(list, ComponentNode(prog)) = <<StepNames(prog.main.steps)>>
    /\ ~list[ComponentNode(prog)].ignoreUnusedPropTypesValidation

\* The prefixes [f1..fk] of names, longest first, without those that end in
\* a name of Object.prototype.
RECURSIVE PrefixPaths(_, _)
PrefixPaths(names, k) ==
  IF k = 0 THEN <<>>
  ELSE (IF names[k] \in ObjectPrototype THEN <<>> ELSE <<SubSeq(names, 1, k)>>) \o PrefixPaths(names, k - 1)

\* C4, amended: the usage list of the component holds one record per prefix
\* [f1, ..., fk] of the chain, 1 <= k <= n, the longest first, except the
\* prefixes whose last name is a member of Object.prototype, which get none;
\* the suppress flag is false.
C4_OneRecordPerPrefix ==
  C4Case =>
    /\ Paths(list, ComponentNode(prog)) = PrefixPaths(StepNames(prog.main.steps), Len(prog.main.steps))
    /\ ~list[ComponentNode(prog)].ignoreUnusedPropTypesValidation

C4_Witness == C4Case /\ Len(prog.main.steps) = 2 /\ Len(list[ComponentNode(prog)].usedPropTypes) = 2

\* ---- C5 ----
\* A listener has called markPropTypesAsUsed on a declarator or on the parent
\* of a pattern, and the call has returned.
DestructuringVisit ==
  /\ thrown = NoError
  /\ \/ op = "VariableDeclarator" /\ VariableDeclaratorMarks(tree, checkAsyncSafeLifeCycles, visited)
     \/ op = "ObjectPattern" /\ ObjectPatternForwards(tree, checkAsyncSafeLifeCycles, visited)
ForwardedNode == IF op = "ObjectPattern" THEN tree[visited].parent ELSE visited
\* The entry that call writes to.
ForwardedOwner == OwnerOf(ForwardedNode, getParentComponent(tree, visited))

\* The fields of a pattern that are neither spread nor computed and have a key.
SoundFields(properties) ==
  {k \in 1..Len(properties) : ~Unsound(tree, properties[k]) /\ Truthy(getKeyValue(tree, properties[k]))}
\* Those of them that no spread or computed field precedes.
LeadingFields(properties) ==
  {k \in SoundFields(properties) : \A j \in 1..k : ~Unsound(tree, properties[j])}
KeyPaths(properties) == [k \in 1..Len(properties) |-> <<getKeyValue(tree, properties[k])>>]
HasUnsound(c) == c.type = "destructuring" /\ \E k \in 1..Len(c.properties) : Unsound(tree, c.properties[k])

SkipsOnlyUnsound(c, owner) ==
  HasUnsound(c) =>
    /\ list[owner].ignoreUnusedPropTypesValidation
    /\ AddedPaths(owner) = Pick(KeyPaths(c.properties), SoundFields(c.properties))

StopsAtUnsound(c, owner) ==
  HasUnsound(c) =>
    /\ list[owner].ignoreUnusedPropTypesValidation
    /\ AddedPaths(owner) = Pick(KeyPaths(c.properties), LeadingFields(c.properties))

\* C5 as stated: when the recorded pattern has a spread or computed field, the
\* suppress flag is set and every field that is neither spread nor computed,
\* before or after it, gets exactly one usage record.
C5_OnlyUnsoundFieldSkipped ==
  DestructuringVisit => SkipsOnlyUnsound(FirstSwitch(tree, checkAsyncSafeLifeCycles, visited, ForwardedNode, <<>>), ForwardedOwner)

\* C5, amended: when the recorded pattern has a spread or computed field, the
\* suppress flag is set, every field before the first spread or computed field
\* gets exactly one usage record, in pattern order, and the fields after it
\* get none.
C5_RecordingStopsAtUnsoundField ==
  DestructuringVisit => StopsAtUnsound(FirstSwitch(tree, checkAsyncSafeLifeCycles, visited, ForwardedNode, <<>>), ForwardedOwner)

SoundAfterUnsound(c) ==
  /\ HasUnsound(c)
  /\ \E k \in SoundFields(c.properties) : k \notin LeadingFields(c.properties)
C5_Witness ==
  /\ DestructuringVisit
  /\ SoundAfterUnsound(FirstSwitch(tree, checkAsyncSafeLifeCycles, visited, ForwardedNode, <<>>))
  /\ list[ForwardedOwner].ignoreUnusedPropTypesValidation

\* ---- C6 ----
\* A method of a class component that is neither the constructor nor a
\* lifecycle method, whose only statement is this.setState(...) with a function
\* argument that reads root.x, at the end of the traversal.
C6Case ==
  /\ Done
  /\ prog.c = "class" /\ prog.comp = "class" /\ prog.method = "handleClick"
  /\ prog.pre.f = "none" /\ prog.decl = "none"
  /\ prog.main.f = "setState" /\ prog.main.callee = "setState"
\* The function is the first argument and root is its second parameter.
ThroughUpdaterParameter ==
  /\ prog.main.argpos = 1
  /\ prog.main.fparams \in {"props", "p"}
  /\ prog.main.root = prog.main.fparams
\* The function is the completion callback and root is not this.props.
InCompletionCallback == prog.main.argpos = 2 /\ prog.main.root # "this" /\ prog.main.fparams # "pat"

\* C6: in a class component, the access through the second parameter of the
\* function passed first to setState appends the usage record of its key, and
\* the same unqualified access in the function passed second appends none.
C6_OnlyFirstArgumentIsUpdater ==
  C6Case =>
    /\ ThroughUpdaterParameter => Paths(list, ComponentNode(prog)) = <<StepNames(prog.main.steps)>>
    /\ InCompletionCallback => Paths(list, ComponentNode(prog)) = <<>>

C6_Witness == C6Case /\ ThroughUpdaterParameter /\ Len(list[ComponentNode(prog)].usedPropTypes) = 1

\* ---- C7 ----
\* A function registered as a non-class component, its first parameter an
\* object pattern of plain fields, with no other usage, at the end of the
\* traversal.
C7Case ==
  /\ Done
  /\ prog.c = "function" /\ prog.comp = "stateless" /\ prog.pk = "pat"
  /\ prog.pre.f = "none" /\ prog.main.f = "none" /\ prog.decl = "none"
  /\ \A i \in 1..Len(prog.pfields) : prog.pfields[i].k = "plain"

\* C7: the component has exactly one usage record per field of the pattern,
\* with the one-name path of the field's key, in parameter order, and its
\* suppress flag is false.
C7_OneRecordPerParameterField ==
  C7Case =>
    /\ Paths(list, ComponentNode(prog)) = [i \in 1..Len(prog.pfields) |-> <<prog.pfields[i].n>>]
    /\ ~list[ComponentNode(prog)].ignoreUnusedPropTypesValidation

C7_Witness == C7Case /\ Len(prog.pfields) = 2 /\ Len(list[ComponentNode(prog)].usedPropTypes) = 2

\* ---- C8 ----
\* The types markPropTypesAsUsed admits.
AdmittedTypes == FunctionTypes \cup {"MemberExpression", "VariableDeclarator"}
\* The ObjectPattern listener has called markPropTypesAsUsed with a node of a
\* type that is not admitted.
UnadmittedCall ==
  /\ op = "ObjectPattern"
  /\ ObjectPatternForwards(tree, checkAsyncSafeLifeCycles, visited)
  /\ tree[tree[visited].parent].type \notin AdmittedTypes

\* C8: a call of markPropTypesAsUsed with a node of a type that is not admitted
\* raises an error, and leaves every registry entry as it was.
C8_UnadmittedNodeRaises == UnadmittedCall => thrown # NoError /\ list = before

C8_Witness == UnadmittedCall /\ thrown = "AssignmentPattern" /\ list = before

\* ---- C9 ----
\* C9 as stated: the contract-violation error is never raised, and the
\* ObjectPattern listener only ever forwards a function-like node.
C9_OnlyAdmittedNodesForwarded ==
  /\ thrown \in {NoError, "TypeError"}
  /\ (op = "ObjectPattern" /\ ObjectPatternForwards(tree, checkAsyncSafeLifeCycles, visited))
       => tree[tree[visited].parent].type \in FunctionTypes

\* ---- C10 ----
\* A lifecycle-named method of a class component whose only statement reads
\* nextProps.x or prevProps.x, or destructures nextProps, prevProps or props,
\* at the end of the traversal.
ReadsOneKey ==
  /\ prog.main.tail = "stmt" /\ prog.main.root \in {"nextProps", "prevProps"}
  /\ Len(prog.main.steps) = 1 /\ prog.main.steps[1].k = "id" /\ prog.main.steps[1].n \notin ObjectPrototype
DestructuresFlat ==
  /\ prog.main.tail = "decl" /\ prog.main.root \in {"nextProps", "prevProps", "props"}
  /\ prog.main.steps = <<>>
C10Case ==
  /\ Done
  /\ prog.c = "class" /\ prog.comp = "class" /\ prog.pk = "ident"
  /\ prog.method \in LIFE_CYCLE_METHODS \cup ASYNC_SAFE_LIFE_CYCLE_METHODS
  /\ prog.pre.f = "none" /\ prog.decl = "none"
  /\ prog.main.f = "chain"
  /\ ReadsOneKey \/ DestructuresFlat
\* The fields of the pattern that no computed or rest field precedes.
LeadingPlain(fields) == {k \in 1..Len(fields) : \A j \in 1..k : fields[j].k \in {"plain", "str"}}
\* The records the statement yields inside componentWillReceiveProps.
LifeCyclePaths ==
  IF prog.main.tail = "stmt" THEN <<StepNames(prog.main.steps)>>
  ELSE Pick([k \in 1..Len(prog.main.fields) |-> <<prog.main.fields[k].n>>], LeadingPlain(prog.main.fields))

\* C10: inside a method with an async-safe lifecycle name the statement yields
\* no record when the gate is off, and the records it yields inside
\* componentWillReceiveProps when the gate is on; inside a method with one of
\* the four synchronous names it yields those records whatever the gate.
C10_AsyncSafeNamesGated ==
  C10Case =>
    Paths(list, ComponentNode(prog)) =
      IF prog.method \in ASYNC_SAFE_LIFE_CYCLE_METHODS /\ ~checkAsyncSafeLifeCycles THEN <<>> ELSE LifeCyclePaths

C10_Witness ==
  /\ C10Case
  /\ prog.method \in ASYNC_SAFE_LIFE_CYCLE_METHODS /\ ~checkAsyncSafeLifeCycles
  /\ LifeCyclePaths # <<>>
  /\ list[ComponentNode(prog)].usedPropTypes = <<>>

====
